---- MODULE Spec2Model ----
(***************************************************************************)
(* Model of the two-pass attribution engine of backend/detect_culprit.py:  *)
(* culprit search (find_issue_origin) and failure localisation             *)
(* (failure_analysis = find_responsible_component +                        *)
(* find_decisive_error_step) over one trace of messages.                   *)
(*                                                                         *)
(* Conventions.  Confidences and thresholds are integers in tenths         *)
(* (5 is 0.5, 10 is 1.0).  Python's None and a missing name are the empty  *)
(* string "", a missing message id is 0.  A metadata dict is a function    *)
(* from the names of the keys it holds to their values; a message without  *)
(* a _culprit_metadata attribute carries NoMeta.  Indices stored in        *)
(* results are the 0-based indices the code computes; positions in TLA+    *)
(* sequences are 1-based.  The judge is an LLM object (not an Agent), so   *)
(* _extract_llm_from_agent is not on the path.                             *)
(***************************************************************************)
EXTENDS Integers, Sequences, FiniteSets, TLC

VARIABLES
    shape,   \* what trace_data is: a dict with 'messages', or malformed
    trace,   \* trace_data['messages'], in chronological order
    meta,    \* meta[p]: the _culprit_metadata of the message at position p
    calls,   \* the judge calls issued by the last run, in order
    ret,     \* what the last run returned (or raised)
    script,  \* the judge answers the last run consumed
    kept,    \* kept[t]: positions retained by the scripted runs at threshold t
    runs     \* number of analysis runs so far

vars == <<shape, trace, meta, calls, ret, script, kept, runs>>

(***************************** bounds **************************************)
MaxLen == 4
MaxShort == 2
MaxRuns == 2

(************************ program constants ********************************)
DefaultMaxMessages == 20
DefaultThreshold == 5
FocusMinLen == 3
FailureConfidence == 10

(***************************** helpers *************************************)
Range(s) == {s[i] : i \in 1..Len(s)}

Min(a, b) == IF a <= b THEN a ELSE b

NoMeta == <<>>
EmptySummary == <<>>
NoRet == [op |-> "none", outcome |-> "none", results |-> <<>>, summary |-> EmptySummary]

\* dict.update: the keys of b win
Update(a, b) ==
    [k \in (DOMAIN a) \cup (DOMAIN b) |-> IF k \in DOMAIN b THEN b[k] ELSE a[k]]

Reverse(s) == [i \in 1..Len(s) |-> s[Len(s) + 1 - i]]

SeqsUpTo(S, n) == UNION {[1..k -> S] : k \in 0..n}

\* str.lower() on the names the model uses
Lower(s) ==
    CASE s = "Orchestrator" -> "orchestrator"
      [] s = "All" -> "all"
      [] s = "Check_Rules" -> "check_rules"
      [] OTHER -> s

(***************************** messages ************************************)
\* _get_message_type, for BaseMessage objects
GetMessageType(msg) == msg.role

\* _get_message_name
GetMessageName(msg) == msg.name

\* the component a message belongs to ("" is None)
MsgComponent(msg) ==
    IF GetMessageType(msg) = "ai" THEN "Orchestrator"
    ELSE IF GetMessageType(msg) = "tool" THEN GetMessageName(msg)
    ELSE ""

OrUnknown(c) == IF c = "" THEN "Unknown" ELSE c

\* list.index(x): 0-based index of the first element equal to x
RECURSIVE IndexFrom(_, _, _)
IndexFrom(s, x, i) ==
    IF i > Len(s) THEN -1
    ELSE IF s[i] = x THEN i - 1
    ELSE IndexFrom(s, x, i + 1)

ListIndex(s, x) == IndexFrom(s, x, 1)

\* msg_id = msg.id, or 'msg_<original_idx>' when the id is missing
MsgId(msg, original_idx) ==
    IF msg.id # 0 THEN <<"id", msg.id>> ELSE <<"msg", original_idx>>

(************************ component classifier *****************************)
\* str.strip() on the texts the model uses
Strip(s) == IF s = " all " THEN "all" ELSE s

RelevantComponentsCaseSensitive(cls) ==
    IF cls.kind = "raise" THEN [active |-> FALSE, comps |-> {}]
    ELSE IF Len(cls.items) = 1 /\ Strip(cls.items[1]) = "all"
         THEN [active |-> FALSE, comps |-> {}]
    ELSE [active |-> TRUE,
          comps |-> {Lower(Strip(cls.items[i])) : i \in 1..Len(cls.items)}]

\* The classifier's reply, as find_issue_origin reads it: a raise, or the
\* text 'all' (after strip and lower), leaves relevant_components None;
\* any other text is split at commas, each item stripped and lower-cased.
RelevantComponents(cls) ==
    IF cls.kind = "raise" THEN [active |-> FALSE, comps |-> {}]
    ELSE IF Len(cls.items) = 1 /\ Lower(Strip(cls.items[1])) = "all"
         THEN [active |-> FALSE, comps |-> {}]
    ELSE [active |-> TRUE,
          comps |-> {Lower(Strip(cls.items[i])) : i \in 1..Len(cls.items)}]

NoFocus == [active |-> FALSE, comps |-> {}]

\* the classifier is consulted only for traces of more than FocusMinLen messages
ClassifierCalled(msgs, focus) == focus /\ Len(msgs) > FocusMinLen

IsRelevant(msg, comps) ==
    MsgComponent(msg) # "" /\ MsgComponent(msg) \in comps

PrioritizedFilter(msgs, rel) ==
    LET rev == Reverse([p \in 1..Len(msgs) |-> p])
    IN  IF rel.active
        THEN SelectSeq(rev, LAMBDA p : IsRelevant(msgs[p], rel.comps))
        ELSE rev

\* positions of the candidates in evaluation order, before truncation:
\* most recent first; with narrowing, the relevant ones first
Prioritized(msgs, rel) ==
    LET rev == Reverse([p \in 1..Len(msgs) |-> p])
    IN  IF rel.active
        THEN SelectSeq(rev, LAMBDA p : IsRelevant(msgs[p], rel.comps))
             \o SelectSeq(rev, LAMBDA p : ~IsRelevant(msgs[p], rel.comps))
        ELSE rev

TruncateKeepAll(s, n) == s

TruncateOneMore(s, n) == SubSeq(s, 1, Min(Len(s), n + 1))

\* message_list_reversed[:max_messages_to_check], for a positive maximum
Truncate(s, n) == SubSeq(s, 1, Min(Len(s), n))

Candidates(msgs, rel, maxc) == Truncate(Prioritized(msgs, rel), maxc)

(********************* parsing one judge evaluation ************************)
\* The confidence the parsing chain extracts from a reply, when it extracts
\* one: from the JSON object, else from the 'confidence' pattern, else 0.0.
ParsedConfidence(ans) ==
    CASE ans.kind \in {"json", "json_null_explanation"} ->
             [has |-> TRUE, value |-> ans.conf]
      [] ans.kind = "text_conf" -> [has |-> TRUE, value |-> ans.conf]
      [] ans.kind = "text_none" -> [has |-> TRUE, value |-> 0]
      [] OTHER -> [has |-> FALSE, value |-> 0]

EvalRaisesNever(ans) == FALSE

\* the try block raises: the judge call itself, float() on a pattern match
\* that is no number, or the 'in' test on an explanation that is no string
EvalRaises(ans) ==
    ans.kind \in {"raise", "text_bad_number", "json_null_explanation"}

IdentifiedComponent(ans, msg) ==
    IF ans.kind = "json" /\ ans.comp # "" THEN ans.comp
    ELSE OrUnknown(MsgComponent(msg))

\* the explanation, as a sequence of text pieces: the judge's own, or the
\* raw reply cut to 200 characters, prefixed with [component] unless the text
\* already names the component
Explanation(ans, msg) ==
    LET body == IF ans.kind = "json" THEN "judge_explanation" ELSE "raw_response_200"
    IN  IF ans.mentions THEN <<body>>
        ELSE <<"[", IdentifiedComponent(ans, msg), "]", body>>

ErrorExplanation == <<"Error during evaluation:", "exception_text">>

IsCulpritBelow(confidence, threshold) == confidence <= threshold

\* is_culprit = confidence >= confidence_threshold
IsCulprit(confidence, threshold) == confidence >= threshold

\* the metadata dict written for one evaluated candidate
EvalMetadata(ans, msg, thr) ==
    IF EvalRaises(ans)
    THEN [is_culprit |-> FALSE, confidence |-> 0,
          explanation |-> ErrorExplanation,
          component |-> OrUnknown(MsgComponent(msg))]
    ELSE [is_culprit |-> IsCulprit(ParsedConfidence(ans).value, thr),
          confidence |-> ParsedConfidence(ans).value,
          explanation |-> Explanation(ans, msg),
          component |-> IdentifiedComponent(ans, msg)]

\* msg._culprit_metadata = {...}: the dict replaces whatever was there
WriteCulpritMetadata(old, new) == new

(************************** the evaluation loop ****************************)
\* for idx, msg in enumerate(message_list_reversed): one judge call each;
\* acc carries results, culprit_message_ids and the messages' metadata
RECURSIVE EvalLoop(_, _, _, _, _, _)
EvalLoop(msgs, cands, k, ans, thr, acc) ==
    IF k > Len(cands) THEN acc
    ELSE
      LET p   == cands[k]
          msg == msgs[p]
          md  == EvalMetadata(ans[p], msg, thr)
          hit == ~EvalRaises(ans[p]) /\ md.is_culprit
          mid == MsgId(msg, ListIndex(msgs, msg))
      IN  EvalLoop(msgs, cands, k + 1, ans, thr,
            [results |-> IF hit
                         THEN Append(acc.results,
                                     [msg |-> p, confidence |-> md.confidence,
                                      explanation |-> md.explanation])
                         ELSE acc.results,
             ids     |-> IF hit THEN acc.ids \cup {mid} ELSE acc.ids,
             meta    |-> [acc.meta EXCEPT ![p] = WriteCulpritMetadata(@, md)]])

\* results.sort(key=confidence, reverse=True): stable, highest first
RECURSIVE SortFrom(_, _, _)
SortFrom(s, k, acc) ==
    IF k > Len(s) THEN acc
    ELSE LET n == Cardinality({i \in 1..Len(acc) : acc[i].confidence >= s[k].confidence})
         IN  SortFrom(s, k + 1,
                      SubSeq(acc, 1, n) \o <<s[k]>> \o SubSeq(acc, n + 1, Len(acc)))

SortLowestFirst(s) == Reverse(SortFrom(s, 1, <<>>))

SortByConfidence(s) == SortFrom(s, 1, <<>>)

\* culprit_components: how many retained culprits each component has
ComponentBreakdown(results, m) ==
    LET comps == {m[results[i].msg].component : i \in 1..Len(results)}
    IN  [c \in comps |->
           Cardinality({i \in 1..Len(results) : m[results[i].msg].component = c})]

\* max(items, key=count): the first component, in order of first
\* appearance among the sorted results, that has the highest count
PrimaryComponent(results, m) ==
    IF results = <<>> THEN ""
    ELSE LET bd   == ComponentBreakdown(results, m)
             best == {i \in 1..Len(results) :
                        \A j \in 1..Len(results) :
                          bd[m[results[j].msg].component]
                            <= bd[m[results[i].msg].component]}
             first == CHOOSE i \in best : \A j \in best : i <= j
         IN  m[results[first].msg].component

\* find_issue_origin for a dict with a 'messages' list: what it returns,
\* the metadata it leaves and the judge calls it issued
FindIssueOrigin(msgs, m, thr, maxc, focus, cls, ans) ==
    IF msgs = <<>> \/ Candidates(msgs, NoFocus, maxc) = <<>>
    THEN [ret |-> [op |-> "culprit", outcome |-> "ok", results |-> <<>>,
                   summary |-> EmptySummary],
          meta |-> m, calls |-> <<>>]
    ELSE
      LET called == ClassifierCalled(msgs, focus)
          rel    == IF called THEN RelevantComponents(cls) ELSE NoFocus
          cands  == Candidates(msgs, rel, maxc)
          out    == EvalLoop(msgs, cands, 1, ans, thr,
                             [results |-> <<>>, ids |-> {}, meta |-> m])
          sorted == SortByConfidence(out.results)
      IN  [ret |-> [op |-> "culprit", outcome |-> "ok", results |-> sorted,
                    summary |->
                      [total_messages_checked |-> Len(cands),
                       culprits_found |-> Len(sorted),
                       confidence_threshold |-> thr,
                       culprit_message_ids |-> out.ids,
                       primary_component |-> PrimaryComponent(sorted, out.meta),
                       component_breakdown |-> ComponentBreakdown(sorted, out.meta),
                       focused_components |-> rel]],
           meta |-> out.meta,
           calls |-> (IF called THEN <<[kind |-> "classify", step |-> -1]>> ELSE <<>>)
                     \o [k \in 1..Len(cands) |->
                           [kind |-> "evaluate", step |-> cands[k] - 1]]]

ValidTraceKeyOnly(sh) == sh # "no_messages_key"

\* isinstance(trace_data, dict) and 'messages' in trace_data
ValidTrace(sh) == sh = "dict_with_messages"

\* the ValueError both analyses raise for a malformed trace_data
InvalidInput(op) ==
    [op |-> op, outcome |-> "ValueError", results |-> <<>>, summary |-> EmptySummary]

(********************** responsible-component finder ***********************)
\* str.replace("'", "").replace('"', '') on the texts the model uses
Unquote(s) ==
    CASE s = "'lookup'" -> "lookup"
      [] s = "'Orchestrator'" -> "Orchestrator"
      [] OTHER -> s

\* find_responsible_component: the reply stripped of blanks and quotes;
\* an exception of the judge is not caught
FindResponsibleComponent(reply) ==
    IF reply.kind = "raise" THEN [raised |-> TRUE, name |-> ""]
    ELSE [raised |-> FALSE, name |-> Unquote(Strip(reply.text))]

(*************************** decisive-step search **************************)
InScopeAnyAi(msg, responsible_component) ==
    \/ GetMessageType(msg) = "ai"
    \/ GetMessageType(msg) = "tool" /\ GetMessageName(msg) = responsible_component

\* is_relevant_step: the step belongs to the responsible component
InScope(msg, responsible_component) ==
    \/ responsible_component = "Orchestrator" /\ GetMessageType(msg) = "ai"
    \/ GetMessageType(msg) = "tool" /\ GetMessageName(msg) = responsible_component

\* "Yes" in line, for the first lines the model uses
ContainsYes(line) ==
    line \in {"Yes", "Yes: wrong decision", "Yes/No: Yes", "Yes/No: No"}

\* "Yes" in response.content.splitlines()[0]; no first line is an IndexError
StepVerdict(reply) ==
    IF reply.kind = "raise" \/ reply.lines = <<>> THEN "raise"
    ELSE IF ContainsYes(reply.lines[1]) THEN "yes"
    ELSE "no"

\* for i, msg in enumerate(log): one judge call per in-scope step, in
\* chronological order, until the first verdict 'yes' (or an exception)
RECURSIVE DecisiveLoop(_, _, _, _, _)
DecisiveLoop(log, comp, p, replies, issued) ==
    IF p > Len(log)
    THEN [outcome |-> "none", step_index |-> -1, calls |-> issued]
    ELSE IF ~InScope(log[p], comp)
    THEN DecisiveLoop(log, comp, p + 1, replies, issued)
    ELSE LET now == Append(issued, [kind |-> "step", step |-> p - 1])
             v   == StepVerdict(replies[p])
         IN  CASE v = "raise" -> [outcome |-> "raised", step_index |-> -1, calls |-> now]
               [] v = "yes"   -> [outcome |-> "found", step_index |-> p - 1, calls |-> now]
               [] OTHER       -> DecisiveLoop(log, comp, p + 1, replies, now)

FindDecisiveErrorStepFirst(log, comp, replies) ==
    LET dec == DecisiveLoop(log, comp, 1, replies, <<>>)
    IN  IF dec.outcome = "found" THEN [dec EXCEPT !.step_index = 0] ELSE dec

FindDecisiveErrorStepStrict(log, comp, replies) ==
    IF \A p \in 1..Len(log) : ~InScope(log[p], comp)
    THEN [outcome |-> "raised", step_index |-> -1, calls |-> <<>>]
    ELSE DecisiveLoop(log, comp, 1, replies, <<>>)

FindDecisiveErrorStep(log, comp, replies) == DecisiveLoop(log, comp, 1, replies, <<>>)

(***************************** failure analysis ****************************)
FailureExplanation(comp) ==
    <<"[FAILURE DETECTED]", "Decisive error in", comp, "judge_reason">>

\* the dict built for the decisive step, over which the message's existing
\* metadata is laid (metadata.update(existing_metadata))
TagFailure(existing, comp) ==
    Update([is_failure |-> TRUE, confidence |-> FailureConfidence,
            explanation |-> FailureExplanation(comp),
            responsible_component |-> comp],
           existing)

MarkNotFailureAfresh(md) ==
    IF md # NoMeta /\ "is_failure" \in DOMAIN md THEN md
    ELSE [is_failure |-> FALSE, confidence |-> 0, explanation |-> <<>>]

\* the closing loop over all messages: a message without metadata gets the
\* 'not a failure' dict, any other gets is_failure = False if it has none
MarkNotFailure(md) ==
    IF md = NoMeta
    THEN [is_failure |-> FALSE, confidence |-> 0, explanation |-> <<>>]
    ELSE IF "is_failure" \in DOMAIN md THEN md
    ELSE Update(md, [is_failure |-> FALSE])

EmptyLogIgnored(log) == FALSE

\* if not failure_log: return [], {}
EmptyLog(log) == log = <<>>

\* failure_analysis for a dict with a 'messages' list
FailureAnalysis(log, m, compReply, replies) ==
    IF EmptyLog(log)
    THEN [ret |-> [op |-> "failure", outcome |-> "ok", results |-> <<>>,
                   summary |-> EmptySummary],
          meta |-> m, calls |-> <<>>]
    ELSE
      LET rc   == FindResponsibleComponent(compReply)
          call == <<[kind |-> "component", step |-> -1]>>
          raised == [op |-> "failure", outcome |-> "raised", results |-> <<>>,
                     summary |-> EmptySummary]
      IN  IF rc.raised THEN [ret |-> raised, meta |-> m, calls |-> call]
          ELSE
            LET dec == FindDecisiveErrorStep(log, rc.name, replies)
                hit == dec.outcome = "found"
                pos == dec.step_index + 1
                ids == IF hit /\ log[pos].id # 0 THEN <<(<<"id", log[pos].id>>)>> ELSE <<>>
                failures == IF hit
                            THEN <<[msg |-> pos, confidence |-> FailureConfidence,
                                    explanation |-> FailureExplanation(rc.name)]>>
                            ELSE <<>>
                tagged == IF hit THEN [m EXCEPT ![pos] = TagFailure(@, rc.name)] ELSE m
            IN  IF dec.outcome = "raised"
                THEN [ret |-> raised, meta |-> m, calls |-> call \o dec.calls]
                ELSE [ret |-> [op |-> "failure", outcome |-> "ok", results |-> failures,
                               summary |->
                                 [total_messages_checked |-> Len(log),
                                  failures_found |-> Len(failures),
                                  confidence_threshold |-> DefaultThreshold,
                                  failure_message_ids |-> ids,
                                  responsible_component |-> rc.name,
                                  decisive_error_step_index |-> dec.step_index,
                                  culprits_found |-> Len(failures),
                                  culprit_message_ids |-> ids]],
                      meta |-> [p \in DOMAIN tagged |-> MarkNotFailure(tagged[p])],
                      calls |-> call \o dec.calls]

(****************************** result merger ******************************)
Max(a, b) == IF a >= b THEN a ELSE b

MergeKeyByRole(log, p) == <<"role", log[p].role>>

\* msg_id = getattr(msg, 'id', None) or id(msg): the id, or the identity of
\* the message object (its place in the trace) when the id is missing
MergeKey(log, p) ==
    IF log[p].id # 0 THEN <<"id", log[p].id>> ELSE <<"object", p>>

\* '[FAILURE DETECTED]' in explanation
HasFailureTag(explanation) == "[FAILURE DETECTED]" \in Range(explanation)

\* metadata.get('is_failure', False) of the message's dict, overridden by
\* the failure tag in the explanation
IsFailureEntry(md, explanation) ==
    \/ "is_failure" \in DOMAIN md /\ md.is_failure
    \/ HasFailureTag(explanation)

\* 0-based place of a key in the insertion-ordered dict, -1 when absent
RECURSIVE KeyIndex(_, _, _)
KeyIndex(dict, key, i) ==
    IF i > Len(dict) THEN -1
    ELSE IF dict[i].key = key THEN i - 1
    ELSE KeyIndex(dict, key, i + 1)

UpsertKeepFirst(dict, key, p, confidence, tag, explanation, source) ==
    LET d == IF KeyIndex(dict, key, 1) = -1
             THEN Append(dict, [key |-> key, msg |-> p, confidence |-> confidence,
                                explanations |-> <<>>, sources |-> <<>>,
                                is_responsible_node |-> FALSE, is_failure |-> FALSE])
             ELSE dict
        i == KeyIndex(d, key, 1) + 1
    IN  [d EXCEPT ![i].explanations = Append(@, <<tag>> \o explanation),
                  ![i].sources = IF source \in Range(@) THEN @ ELSE Append(@, source)]

\* one pass of either loop body: create the entry of the key if it is new,
\* then append the tagged explanation, add the source if it is not listed
\* and raise the confidence to the maximum
Upsert(dict, key, p, confidence, tag, explanation, source) ==
    LET d == IF KeyIndex(dict, key, 1) = -1
             THEN Append(dict, [key |-> key, msg |-> p, confidence |-> confidence,
                                explanations |-> <<>>, sources |-> <<>>,
                                is_responsible_node |-> FALSE, is_failure |-> FALSE])
             ELSE dict
        i == KeyIndex(d, key, 1) + 1
    IN  [d EXCEPT ![i].explanations = Append(@, <<tag>> \o explanation),
                  ![i].sources = IF source \in Range(@) THEN @ ELSE Append(@, source),
                  ![i].confidence = Max(@, confidence)]

\* for msg, confidence, explanation in culprits_origin
RECURSIVE AddOrigin(_, _, _, _)
AddOrigin(dict, log, culprits_origin, k) ==
    IF k > Len(culprits_origin) THEN dict
    ELSE LET e   == culprits_origin[k]
             key == MergeKey(log, e.msg)
             d   == Upsert(dict, key, e.msg, e.confidence, "[Culprit Detection]",
                           e.explanation, "Culprit Detection")
             i   == KeyIndex(d, key, 1) + 1
         IN  AddOrigin([d EXCEPT ![i].is_responsible_node = TRUE],
                       log, culprits_origin, k + 1)

\* for msg, confidence, explanation in failures
RECURSIVE AddFailures(_, _, _, _, _)
AddFailures(dict, log, m, failures, k) ==
    IF k > Len(failures) THEN dict
    ELSE LET e   == failures[k]
             key == MergeKey(log, e.msg)
             d   == Upsert(dict, key, e.msg, e.confidence, "[Error Detection]",
                           e.explanation, "Error Detection")
             i   == KeyIndex(d, key, 1) + 1
         IN  AddFailures([d EXCEPT ![i].is_failure = IsFailureEntry(m[e.msg], e.explanation)],
                         log, m, failures, k + 1)

\* the order of the key (not is_failure, not is_responsible_node, -confidence)
WebKeyLeq(a, b) ==
    LET fa == IF a.is_failure THEN 0 ELSE 1
        fb == IF b.is_failure THEN 0 ELSE 1
        ra == IF a.is_responsible_node THEN 0 ELSE 1
        rb == IF b.is_responsible_node THEN 0 ELSE 1
    IN  \/ fa < fb
        \/ fa = fb /\ ra < rb
        \/ fa = fb /\ ra = rb /\ a.confidence >= b.confidence

\* combined.sort(key=lambda x: (not x[5], not x[4], -x[1])): stable
RECURSIVE WebSortFrom(_, _, _)
WebSortFrom(s, k, acc) ==
    IF k > Len(s) THEN acc
    ELSE LET n == Cardinality({i \in 1..Len(acc) : WebKeyLeq(acc[i], s[k])})
         IN  WebSortFrom(s, k + 1,
                         SubSeq(acc, 1, n) \o <<s[k]>> \o SubSeq(acc, n + 1, Len(acc)))

\* the tuple built from one dict entry
WebTuple(data) ==
    [msg |-> data.msg, confidence |-> data.confidence,
     explanation |-> data.explanations, sources |-> data.sources,
     is_responsible_node |-> data.is_responsible_node, is_failure |-> data.is_failure]

\* combine_results of the web handler
CombineResults(log, m, culprits_origin, failures) ==
    LET dict == AddFailures(AddOrigin(<<>>, log, culprits_origin, 1), log, m, failures, 1)
    IN  WebSortFrom([i \in 1..Len(dict) |-> WebTuple(dict[i])], 1, <<>>)

CliTuple(data) ==
    [msg |-> data.msg, confidence |-> data.confidence,
     explanation |-> data.explanations, sources |-> data.sources]

\* data['message']._culprit_metadata = {...}: the merged dict replaces the
\* metadata of every merged message
CliMetadata(m, combined) ==
    [p \in DOMAIN m |->
       IF \E i \in 1..Len(combined) : combined[i].msg = p
       THEN LET e == combined[CHOOSE i \in 1..Len(combined) : combined[i].msg = p]
            IN  [is_culprit |-> TRUE, confidence |-> e.confidence,
                 explanation |-> e.explanation, sources |-> e.sources]
       ELSE m[p]]

\* combine_culprits of the command-line tool: the same two loops without
\* the flags, sorted by confidence alone (stable, highest first)
CombineCulprits(log, m, culprits_origin, culprits_failure) ==
    LET dict == AddFailures(AddOrigin(<<>>, log, culprits_origin, 1),
                            log, m, culprits_failure, 1)
    IN  SortByConfidence([i \in 1..Len(dict) |-> CliTuple(dict[i])])

\* summary.get(key, default) on a summary that may be the empty dict
Get(summary, key, default) ==
    IF key \in DOMAIN summary THEN summary[key] ELSE default

\* the combined summary of the web handler
WebSummary(combined, culprits_origin, failures, so, sf, thr) ==
    [total_messages_checked |-> Max(Get(so, "total_messages_checked", 0),
                                    Get(sf, "total_messages_checked", 0)),
     culprits_found |-> Len(combined),
     responsible_nodes_from_origin |-> Len(culprits_origin),
     failures_from_analysis |-> Len(failures),
     confidence_threshold |-> thr,
     culprit_message_ids |-> Get(so, "culprit_message_ids", {})
                               \cup Range(Get(sf, "failure_message_ids", <<>>)),
     responsible_component |-> Get(sf, "responsible_component", ""),
     decisive_error_step_index |-> Get(sf, "decisive_error_step_index", -1)]

\* the combined summary of the command-line tool
CliSummary(combined, culprits_origin, culprits_failure, so, sf) ==
    [total_messages_checked |-> Max(Get(so, "total_messages_checked", 0),
                                    Get(sf, "total_messages_checked", 0)),
     culprits_found |-> Len(combined),
     culprits_from_origin |-> Len(culprits_origin),
     culprits_from_failure |-> Len(culprits_failure),
     confidence_threshold |-> Get(so, "confidence_threshold", DefaultThreshold),
     culprit_message_ids |-> Get(so, "culprit_message_ids", {})
                               \cup Range(Get(sf, "culprit_message_ids", <<>>)),
     responsible_component |-> Get(sf, "responsible_component", ""),
     decisive_error_step_index |-> Get(sf, "decisive_error_step_index", -1)]

(****************************** input domains ******************************)
Human == [role |-> "human", name |-> ""]
Ai == [role |-> "ai", name |-> ""]
LookupTool == [role |-> "tool", name |-> "lookup"]
RulesTool == [role |-> "tool", name |-> "Check_Rules"]

\* a trace whose messages all carry an id (their position)
WithIds(kinds) ==
    [p \in 1..Len(kinds) |->
       [role |-> kinds[p].role, name |-> kinds[p].name, id |-> p, content |-> 0]]

TracesOf(Kinds, n) == {WithIds(ks) : ks \in SeqsUpTo(Kinds, n)}

\* a trace in which a message may lack its id and two messages may be
\* equal field by field (same role, name and content, no id)
MaybeIds(kinds, has, contents) ==
    [p \in 1..Len(kinds) |->
       [role |-> kinds[p].role, name |-> kinds[p].name,
        id |-> IF has[p] THEN p ELSE 0, content |-> contents[p]]]

TracesMaybeIds(Kinds, n) ==
    UNION {{MaybeIds(ks, has, cs) :
              ks \in [1..k -> Kinds], has \in [1..k -> BOOLEAN], cs \in [1..k -> {0, 1}]} :
           k \in 0..n}

Shapes == {"dict_with_messages", "not_a_dict", "no_messages_key"}

Thresholds == {2, 5, 8}

\* replies of the judge to one evaluation prompt
JsonReplies(Confs, Comps) ==
    [kind : {"json"}, conf : Confs, comp : Comps, mentions : {FALSE}]

OtherReplies ==
    {[kind |-> "raise", conf |-> 0, comp |-> "", mentions |-> FALSE],
     [kind |-> "json_null_explanation", conf |-> 8, comp |-> "", mentions |-> FALSE],
     [kind |-> "text_conf", conf |-> 5, comp |-> "", mentions |-> TRUE],
     [kind |-> "text_bad_number", conf |-> 0, comp |-> "", mentions |-> FALSE],
     [kind |-> "text_none", conf |-> 0, comp |-> "", mentions |-> FALSE]}

\* replies of the judge to the classifier prompt
ClassifierReply(items) == [kind |-> "text", items |-> items]
ClassifierRaise == [kind |-> "raise", items |-> <<>>]

\* replies of the judge to the responsible-component prompt
ComponentReplies ==
    {[kind |-> "raise", text |-> ""]}
    \cup [kind : {"text"}, text : {"Orchestrator", "lookup", "'lookup'", "no_such_tool"}]

\* replies of the judge to one decisive-step prompt
StepReplies ==
    {[kind |-> "raise", lines |-> <<>>],
     [kind |-> "text", lines |-> <<>>],
     [kind |-> "text", lines |-> <<"Yes: wrong decision", "Reason: r">>],
     [kind |-> "text", lines |-> <<"No", "Reason: r">>],
     [kind |-> "text", lines |-> <<"Yes/No: No", "Reason: r">>]}

(******************************** actions **********************************)
NoScript == [set |-> FALSE]

Retained(results) == {results[i].msg : i \in 1..Len(results)}

\* the judge answers one culprit search consumes: the classifier's reply
\* when the classifier is consulted, one reply per evaluated candidate
Scripts(msgs, Maxc, Focus, Cls, Ans) ==
    UNION {
      UNION {
        UNION {
          {[set |-> TRUE, maxc |-> maxc, focus |-> focus, cls |-> cls, ans |-> ans] :
             ans \in [Range(Candidates(msgs,
                                       IF ClassifierCalled(msgs, focus)
                                       THEN RelevantComponents(cls) ELSE NoFocus,
                                       maxc)) -> Ans]} :
          cls \in IF ClassifierCalled(msgs, focus) THEN Cls ELSE {ClassifierRaise}} :
        focus \in Focus} :
      maxc \in Maxc}

\* one call of find_issue_origin(trace_data, question, judge, maxc, thr, focus)
Culprit(thr, sc, keptBefore) ==
    /\ runs < MaxRuns
    /\ runs' = runs + 1
    /\ UNCHANGED <<shape, trace>>
    /\ \/ /\ ~ValidTrace(shape)
          /\ ret' = InvalidInput("culprit")
          /\ calls' = <<>>
          /\ UNCHANGED <<meta, script, kept>>
       \/ /\ ValidTrace(shape)
          /\ LET out == FindIssueOrigin(trace, meta, thr, sc.maxc, sc.focus, sc.cls, sc.ans)
             IN  /\ ret' = out.ret
                 /\ meta' = out.meta
                 /\ calls' = out.calls
                 /\ script' = sc
                 /\ kept' = [t \in (DOMAIN keptBefore) \cup {thr} |->
                               IF t = thr THEN Retained(out.ret.results)
                               ELSE keptBefore[t]]

\* culprit search with a judge that answers anew on every run
CulpritSearch(Thr, Maxc, Focus, Cls, Ans) ==
    \E thr \in Thr : \E sc \in Scripts(trace, Maxc, Focus, Cls, Ans) :
        Culprit(thr, sc, <<>>)

\* culprit search with a scripted judge: the answers are fixed by the first
\* run and every later run gets the same ones
ScriptedCulpritSearch(Thr, Maxc, Focus, Cls, Ans) ==
    \E thr \in Thr :
        \E sc \in IF script.set THEN {script} ELSE Scripts(trace, Maxc, Focus, Cls, Ans) :
            Culprit(thr, sc, kept)

\* one call of failure_analysis(result, original_user_query, judge)
FailureRun(Comps, Steps) ==
    /\ runs < MaxRuns
    /\ runs' = runs + 1
    /\ UNCHANGED <<shape, trace, kept>>
    /\ \/ /\ ~ValidTrace(shape)
          /\ ret' = InvalidInput("failure")
          /\ calls' = <<>>
          /\ UNCHANGED <<meta, script>>
       \/ /\ ValidTrace(shape)
          /\ \E compReply \in (IF trace = <<>> THEN {[kind |-> "raise", text |-> ""]} ELSE Comps) :
               LET comp  == FindResponsibleComponent(compReply).name
                   scope == IF compReply.kind = "raise" THEN {}
                            ELSE {p \in 1..Len(trace) : InScope(trace[p], comp)}
               IN  \E replies \in [scope -> Steps] :
                     LET out == FailureAnalysis(trace, meta, compReply, replies)
                     IN  /\ ret' = out.ret
                         /\ meta' = out.meta
                         /\ calls' = out.calls
                         /\ script' = [set |-> TRUE, comp |-> compReply, steps |-> replies]

\* the positions a failure analysis puts to the judge depend on the
\* component reply: the replies one run consumes
FailureScripts(log, Comps, Steps) ==
    UNION {
      {[comp |-> compReply, steps |-> replies] :
         replies \in [IF compReply.kind = "raise" THEN {}
                      ELSE {p \in 1..Len(log) :
                              InScope(log[p], FindResponsibleComponent(compReply).name)}
                      -> Steps]} :
      compReply \in IF log = <<>> THEN {[kind |-> "raise", text |-> ""]} ELSE Comps}

\* One request of the web handler (front = "web") or one run of the
\* command-line tool (front = "cli") with both analyses switched on:
\* find_issue_origin, then failure_analysis on the same messages, then the
\* merger and the combined summary.  An exception of either analysis ends
\* the request with what was written so far.
Analyze(front, Thr, Ans, Comps, Steps) ==
    /\ runs < MaxRuns
    /\ runs' = runs + 1
    /\ UNCHANGED <<shape, trace, kept>>
    /\ \/ /\ ~ValidTrace(shape)
          /\ ret' = InvalidInput(front)
          /\ calls' = <<>>
          /\ UNCHANGED <<meta, script>>
       \/ /\ ValidTrace(shape)
          /\ \E thr \in Thr :
             \E sc \in Scripts(trace, {DefaultMaxMessages}, {TRUE}, {ClassifierRaise}, Ans) :
             \E fs \in FailureScripts(trace, Comps, Steps) :
               LET o == FindIssueOrigin(trace, meta, thr, sc.maxc, sc.focus, sc.cls, sc.ans)
                   f == FailureAnalysis(trace, o.meta, fs.comp, fs.steps)
                   combined == IF front = "web"
                               THEN CombineResults(trace, f.meta, o.ret.results, f.ret.results)
                               ELSE CombineCulprits(trace, f.meta, o.ret.results, f.ret.results)
                   summary == IF front = "web"
                              THEN WebSummary(combined, o.ret.results, f.ret.results,
                                              o.ret.summary, f.ret.summary, thr)
                              ELSE CliSummary(combined, o.ret.results, f.ret.results,
                                              o.ret.summary, f.ret.summary)
               IN  /\ calls' = o.calls \o f.calls
                   /\ script' = [set |-> TRUE, thr |-> thr, ans |-> sc.ans,
                                 comp |-> fs.comp, steps |-> fs.steps]
                   /\ IF f.ret.outcome = "ok"
                      THEN /\ ret' = [op |-> front, outcome |-> "ok",
                                      results |-> combined, summary |-> summary,
                                      origin |-> o.ret.results,
                                      failures |-> f.ret.results]
                           /\ meta' = IF front = "web" THEN f.meta
                                      ELSE CliMetadata(f.meta, combined)
                      ELSE /\ ret' = [op |-> front, outcome |-> "raised",
                                      results |-> <<>>, summary |-> EmptySummary]
                           /\ meta' = f.meta

(***************************** specifications ******************************)
\* trace_data is a dict with a 'messages' list, a dict without that key, or
\* no dict at all (the bare message list)
InitWith(Traces) ==
    /\ shape \in Shapes
    /\ trace \in IF shape = "no_messages_key" THEN {<<>>} ELSE Traces
    /\ meta = [p \in 1..Len(trace) |-> NoMeta]
    /\ calls = <<>>
    /\ ret = NoRet
    /\ script = NoScript
    /\ kept = <<>>
    /\ runs = 0

\* Culprit search alone, run repeatedly with a scripted judge over traces
\* long enough for the component classifier to be consulted.
InitCulprit == InitWith(TracesOf({Human, Ai, LookupTool}, MaxLen))

NextCulprit ==
    ScriptedCulpritSearch({5, 8}, {DefaultMaxMessages}, {TRUE},
                          {ClassifierReply(<<"All">>), ClassifierReply(<<"Orchestrator", "lookup">>)},
                          JsonReplies({5, 8}, {""}))

SpecCulprit == InitCulprit /\ [][NextCulprit]_vars

\* Culprit search over short traces with every shape of judge reply.
InitParse == InitWith(TracesOf({Ai, LookupTool}, MaxShort))

NextParse ==
    /\ runs = 0
    /\ CulpritSearch({5, 8}, {DefaultMaxMessages}, {TRUE}, {ClassifierRaise},
                     JsonReplies({-3, 5, 8, 12}, {"", "planner"}) \cup OtherReplies)

SpecParse == InitParse /\ [][NextParse]_vars

\* Failure analysis alone, over the longer traces.
InitFailure == InitWith(TracesOf({Human, Ai, LookupTool}, MaxLen))

NextFailure == runs = 0 /\ FailureRun(ComponentReplies, StepReplies)

SpecFailure == InitFailure /\ [][NextFailure]_vars

\* Both analyses over one short trace, in any order, with a judge that
\* answers anew on every run.
Init == InitWith(TracesOf({Human, Ai, LookupTool}, MaxShort))

Next ==
    \/ CulpritSearch({DefaultThreshold}, {DefaultMaxMessages}, {TRUE}, {ClassifierRaise},
                     JsonReplies({2, 8}, {""}))
    \/ FailureRun({[kind |-> "raise", text |-> ""]}
                    \cup [kind : {"text"}, text : {"Orchestrator", "lookup", "no_such_tool"}],
                  {[kind |-> "raise", lines |-> <<>>],
                   [kind |-> "text", lines |-> <<"Yes: wrong decision", "Reason: r">>],
                   [kind |-> "text", lines |-> <<"No", "Reason: r">>]})

Spec == Init /\ [][Next]_vars

\* Both front ends over one short trace: each run is a whole request, the
\* culprit search followed by the failure analysis and the merger.
InitMerge == InitWith(TracesOf({Human, Ai, LookupTool}, MaxShort))

NextMerge ==
    /\ runs = 0
    /\ \/ Analyze("web", {DefaultThreshold}, JsonReplies({2, 8, 10}, {""}),
                  [kind : {"text"}, text : {"Orchestrator", "lookup"}],
                  {[kind |-> "text", lines |-> <<"Yes: wrong decision", "Reason: r">>],
                   [kind |-> "text", lines |-> <<"No", "Reason: r">>]})
       \/ Analyze("cli", {DefaultThreshold}, JsonReplies({2, 8, 10}, {""}),
                  [kind : {"text"}, text : {"Orchestrator", "lookup"}],
                  {[kind |-> "text", lines |-> <<"Yes: wrong decision", "Reason: r">>],
                   [kind |-> "text", lines |-> <<"No", "Reason: r">>]})

SpecMerge == InitMerge /\ [][NextMerge]_vars

\* Culprit search once over the longer traces, with the component
\* classifier answering in every way and with a small and the default
\* max_messages_to_check.
InitFocus == InitWith(TracesOf({Human, Ai, LookupTool, RulesTool}, MaxLen))

NextFocus ==
    /\ runs = 0
    /\ CulpritSearch({DefaultThreshold}, {2, DefaultMaxMessages}, {TRUE, FALSE},
                     {ClassifierRaise, ClassifierReply(<<"All">>),
                      ClassifierReply(<<" all ">>), ClassifierReply(<<"Orchestrator">>),
                      ClassifierReply(<<"lookup">>),
                      ClassifierReply(<<"Orchestrator", "lookup">>),
                      ClassifierReply(<<"Check_Rules">>)},
                     JsonReplies({8}, {""}))

SpecFocus == InitFocus /\ [][NextFocus]_vars

\* Culprit search alone and whole requests of both front ends, once, over
\* short traces whose messages may lack ids.
InitIds == InitWith(TracesMaybeIds({Ai, LookupTool}, MaxShort))

NextIds ==
    /\ runs = 0
    /\ \/ CulpritSearch({DefaultThreshold}, {DefaultMaxMessages}, {TRUE}, {ClassifierRaise},
                        JsonReplies({2, 8}, {""}))
       \/ Analyze("web", {DefaultThreshold}, JsonReplies({2, 8}, {""}),
                  [kind : {"text"}, text : {"Orchestrator", "lookup"}],
                  {[kind |-> "text", lines |-> <<"Yes: wrong decision", "Reason: r">>],
                   [kind |-> "text", lines |-> <<"No", "Reason: r">>]})
       \/ Analyze("cli", {DefaultThreshold}, JsonReplies({2, 8}, {""}),
                  [kind : {"text"}, text : {"Orchestrator", "lookup"}],
                  {[kind |-> "text", lines |-> <<"Yes: wrong decision", "Reason: r">>],
                   [kind |-> "text", lines |-> <<"No", "Reason: r">>]})

SpecIds == InitIds /\ [][NextIds]_vars

\* Either analysis once over the longer traces, to count the judge calls.
InitCalls == InitWith(TracesOf({Human, Ai, LookupTool}, MaxLen))

NextCalls ==
    /\ runs = 0
    /\ \/ CulpritSearch({DefaultThreshold}, {2, DefaultMaxMessages}, {TRUE, FALSE},
                        {ClassifierRaise, ClassifierReply(<<"lookup">>)},
                        JsonReplies({8}, {""}))
       \/ FailureRun(ComponentReplies, StepReplies)

SpecCalls == InitCalls /\ [][NextCalls]_vars

(******************************** claims ***********************************)
\* positions of the messages the last culprit search evaluated
Evaluated == {calls[k].step + 1 : k \in {j \in 1..Len(calls) : calls[j].kind = "evaluate"}}

\* positions of the steps the last decisive-step search put to the judge
StepsJudged == {calls[k].step + 1 : k \in {j \in 1..Len(calls) : calls[j].kind = "step"}}

\* rank of a message in the evaluation order of the last culprit search
EvalRank(p) ==
    CHOOSE k \in 1..Len(calls) : calls[k].kind = "evaluate" /\ calls[k].step = p - 1

CulpritReturned == ret.op = "culprit" /\ ret.outcome = "ok" /\ ret.summary # EmptySummary

\* C1: after a culprit search, every evaluated candidate from whose reply a
\* confidence was parsed is among the returned culprits exactly if that
\* confidence is at least the threshold of the run; every returned culprit
\* has a confidence of at least the threshold; culprits_found is the length
\* of the returned list.
C1_RetainedIffAtLeastThreshold ==
    CulpritReturned =>
      /\ \A p \in Evaluated :
           ParsedConfidence(script.ans[p]).has =>
             (p \in Retained(ret.results)
                <=> ParsedConfidence(script.ans[p]).value >= ret.summary.confidence_threshold)
      /\ \A i \in 1..Len(ret.results) :
           ret.results[i].confidence >= ret.summary.confidence_threshold
      /\ ret.summary.culprits_found = Len(ret.results)

\* C2: the culprits a culprit search returns are in order of non-increasing
\* confidence, and two culprits of equal confidence are in the order in which
\* they were evaluated.
C2_SortedStable ==
    ret.op = "culprit" =>
      \A i, j \in 1..Len(ret.results) :
        i < j =>
          /\ ret.results[i].confidence >= ret.results[j].confidence
          /\ ret.results[i].confidence = ret.results[j].confidence
               => EvalRank(ret.results[i].msg) < EvalRank(ret.results[j].msg)

\* three culprits with a tie and two different confidences, returned by a
\* narrowed search that evaluated an older message before a more recent one
C2_Witness ==
    /\ ret.op = "culprit"
    /\ Len(ret.results) >= 3
    /\ ret.summary.focused_components.active
    /\ \E i, j \in 1..Len(ret.results) :
         /\ i < j
         /\ ret.results[i].confidence = ret.results[j].confidence
         /\ ret.results[i].msg < ret.results[j].msg
    /\ \E i \in 1..Len(ret.results) : ret.results[i].confidence # ret.results[1].confidence

\* C3: for one trace and one assignment of judge answers, the messages
\* retained at a threshold are among those retained at any lower threshold.
C3_ThresholdMonotone ==
    \A t1, t2 \in DOMAIN kept : t1 < t2 => kept[t2] \subseteq kept[t1]

\* the same scripted judge was run at both thresholds; the higher one
\* retained something, and less than the lower one
C3_Witness ==
    /\ DOMAIN kept = {5, 8}
    /\ kept[8] # {}
    /\ kept[8] # kept[5]

\* C4: on a trace with an empty message list either analysis returns an empty
\* result list and an empty summary, having issued no judge call and written
\* no metadata.
C4_EmptyTraceEmptyResult ==
    (shape = "dict_with_messages" /\ trace = <<>> /\ ret.op # "none") =>
      /\ ret.outcome = "ok"
      /\ ret.results = <<>>
      /\ ret.summary = EmptySummary
      /\ calls = <<>>
      /\ meta = <<>>

\* failure analysis has returned on the empty trace, after a culprit search
C4_Witness ==
    /\ shape = "dict_with_messages" /\ trace = <<>>
    /\ runs = 2 /\ ret.op = "failure" /\ ret.outcome = "ok"
    /\ DOMAIN kept # {}

\* C5: on trace data that is no dict, or a dict without 'messages', either
\* analysis fails with ValueError, issues no judge call and leaves every
\* message without metadata.
C5_InvalidInputRejected ==
    (shape # "dict_with_messages" /\ ret.op # "none") =>
      /\ ret.outcome = "ValueError"
      /\ calls = <<>>
      /\ \A p \in 1..Len(trace) : meta[p] = NoMeta

\* both analyses were called on a bare message list
C5_Witness ==
    /\ shape = "not_a_dict" /\ trace # <<>>
    /\ runs = 2 /\ ret.op = "failure" /\ ret.outcome = "ValueError"

\* the responsible-component call of the last failure analysis returned
ComponentNamed ==
    /\ ret.op = "failure" /\ shape = "dict_with_messages" /\ trace # <<>>
    /\ script.set /\ script.comp.kind = "text"

\* the responsible component of the last failure analysis
Responsible == FindResponsibleComponent(script.comp).name

\* the steps of a component, as the claims describe them
Matching(comp) ==
    {p \in 1..Len(trace) :
       \/ comp = "Orchestrator" /\ trace[p].role = "ai"
       \/ trace[p].role = "tool" /\ trace[p].name = comp}

\* steps of a component whose reply has 'Yes' on its first line
AnswersYes(comp) ==
    {p \in Matching(comp) :
       /\ script.steps[p].kind = "text"
       /\ script.steps[p].lines # <<>>
       /\ ContainsYes(script.steps[p].lines[1])}

\* C6: when every in-scope step gets a reply from the judge, the
\* decisive-step search returns the first in-scope step whose reply has 'Yes'
\* on its first line, and the steps put to the judge are the in-scope steps
\* up to and including that one: all of them if no reply has 'Yes'.
C6_ShortCircuit ==
    (ComponentNamed /\ \A p \in Matching(Responsible) : script.steps[p].kind = "text") =>
      LET yes == AnswersYes(Responsible)
      IN  IF yes = {}
          THEN /\ ret.outcome = "ok"
               /\ ret.results = <<>>
               /\ StepsJudged = Matching(Responsible)
          ELSE LET first == CHOOSE p \in yes : \A q \in yes : p <= q
               IN  /\ ret.outcome = "ok"
                   /\ ret.summary.decisive_error_step_index = first - 1
                   /\ StepsJudged = {p \in Matching(Responsible) : p <= first}

\* C7: the decisive-step search puts a step to the judge only if the step is
\* an ai step and the responsible component is 'Orchestrator', or a tool step
\* whose name is the responsible component; for a tool component no ai,
\* human or system step is judged or returned; the returned step_index is the
\* returned message's index in the trace.
C7_OnlyInScopeSteps ==
    ComponentNamed =>
      /\ StepsJudged \subseteq Matching(Responsible)
      /\ Responsible # "Orchestrator" =>
           \A p \in StepsJudged \cup Retained(ret.results) : trace[p].role = "tool"
      /\ \A i \in 1..Len(ret.results) :
           /\ ret.results[i].msg \in Matching(Responsible)
           /\ ret.summary.decisive_error_step_index = ret.results[i].msg - 1

\* a tool was named; the trace has ai and human steps before the tool step
\* that was found decisive, and an earlier step of the tool was judged too
C7_Witness ==
    /\ ComponentNamed
    /\ Responsible = "lookup"
    /\ Len(ret.results) = 1
    /\ Cardinality(StepsJudged) = 2
    /\ \E p, q \in 1..Len(trace) :
         /\ p < ret.results[1].msg /\ trace[p].role = "ai"
         /\ q < ret.results[1].msg /\ trace[q].role = "human"

\* C8: when no message of the trace matches the responsible component, the
\* decisive-step search puts no step to the judge and reports no decisive
\* error; failure analysis returns no failure, decisive_error_step_index
\* null (-1) and the responsible component in its summary.
C8_NoMatchNoDecisiveError ==
    (ComponentNamed /\ Matching(Responsible) = {}) =>
      /\ ret.outcome = "ok"
      /\ ret.results = <<>>
      /\ StepsJudged = {}
      /\ ret.summary.decisive_error_step_index = -1
      /\ ret.summary.failures_found = 0
      /\ ret.summary.responsible_component = Responsible

\* the judge named a tool the trace does not have, and the trace has steps
\* of the orchestrator and of another tool
C8_Witness ==
    /\ ComponentNamed
    /\ Responsible = "no_such_tool"
    /\ ret.outcome = "ok"
    /\ \E p, q \in 1..Len(trace) : trace[p].role = "ai" /\ trace[q].role = "tool"

\* the four keys culprit search writes
CulpritKeys == {"is_culprit", "confidence", "explanation", "component"}

\* this step is a failure analysis that returned
FailureReturns == runs' = runs + 1 /\ ret'.op = "failure" /\ ret'.outcome = "ok"

\* this step is a culprit search that returned
CulpritReturns == runs' = runs + 1 /\ ret'.op = "culprit" /\ ret'.outcome = "ok"

\* C9: when failure analysis returns without flagging a message whose
\* metadata is as culprit search wrote it, the message's is_culprit,
\* confidence, explanation and component are unchanged and is_failure = false
\* has been added.
C9_FailurePassKeepsCulpritFields ==
    [][FailureReturns =>
         \A p \in 1..Len(trace) :
           (DOMAIN meta[p] = CulpritKeys /\ p \notin Retained(ret'.results)) =>
             /\ \A k \in CulpritKeys : k \in DOMAIN meta'[p] /\ meta'[p][k] = meta[p][k]
             /\ "is_failure" \in DOMAIN meta'[p]
             /\ meta'[p]["is_failure"] = FALSE]_vars

\* failure analysis flagged one step and left a culprit of the first pass
\* unflagged, which now carries is_failure = false beside its pass-1 fields
C9_Witness ==
    /\ runs = 2 /\ ret.op = "failure" /\ Len(ret.results) = 1
    /\ \E p \in 1..Len(trace) :
         /\ p \notin Retained(ret.results)
         /\ DOMAIN meta[p] = CulpritKeys \cup {"is_failure"}
         /\ meta[p]["is_culprit"] /\ meta[p]["confidence"] = 8
         /\ ~meta[p]["is_failure"]

\* the keys failure analysis writes for the decisive step
FailureKeys == {"is_failure", "responsible_component"}

\* C10: when culprit search annotates a message that carries is_failure or
\* responsible_component from an earlier failure analysis, those keys are
\* still there with the same values afterwards.
C10_CulpritSearchKeepsFailureFields ==
    [][CulpritReturns =>
         \A p \in {calls'[k].step + 1 :
                     k \in {j \in 1..Len(calls') : calls'[j].kind = "evaluate"}} :
           \A k \in FailureKeys \cap DOMAIN meta[p] :
             k \in DOMAIN meta'[p] /\ meta'[p][k] = meta[p][k]]_vars

(*************************** claims on the merger **************************)
\* a whole request of either front end has returned its merged view
Merged == ret.op \in {"web", "cli"} /\ ret.outcome = "ok"

\* two messages of the trace carry the same message id
SameMessageId(p, q) == p = q \/ (trace[p].id # 0 /\ trace[p].id = trace[q].id)

\* indices of the merged entries that stand for the message id of position p
EntriesOf(p) == {k \in 1..Len(ret.results) : SameMessageId(ret.results[k].msg, p)}

\* pairs (i, j): culprit result i and failure result j have the same message id
InBoth ==
    {ij \in (1..Len(ret.origin)) \X (1..Len(ret.failures)) :
       SameMessageId(ret.origin[ij[1]].msg, ret.failures[ij[2]].msg)}

\* C11: when the same message id appears in the culprit results and in the
\* failure results, the merged list has exactly one entry for that id; its
\* confidence is the larger of the two input confidences, its sources name
\* both 'Culprit Detection' and 'Error Detection', its explanation holds
\* both tagged explanations, and in the web merger both is_responsible_node
\* and is_failure are true.
C11_SharedIdMergedOnce ==
    Merged =>
      \A ij \in InBoth :
        LET a == ret.origin[ij[1]]
            b == ret.failures[ij[2]]
        IN  /\ Cardinality(EntriesOf(a.msg)) = 1
            /\ \A k \in EntriesOf(a.msg) :
                 LET e == ret.results[k]
                 IN  /\ e.confidence = (IF a.confidence >= b.confidence
                                         THEN a.confidence ELSE b.confidence)
                     /\ {"Culprit Detection", "Error Detection"} \subseteq Range(e.sources)
                     /\ (<<"[Culprit Detection]">> \o a.explanation) \in Range(e.explanation)
                     /\ (<<"[Error Detection]">> \o b.explanation) \in Range(e.explanation)
                     /\ (ret.op = "web" => e.is_responsible_node /\ e.is_failure)

\* the web merger joined a culprit of confidence 0.8 with the failure found
\* on the same message, next to another merged entry
C11_Witness ==
    /\ Merged /\ ret.op = "web"
    /\ Len(ret.results) = 2
    /\ \E ij \in InBoth :
         /\ ret.origin[ij[1]].confidence = 8
         /\ ret.failures[ij[2]].confidence = FailureConfidence

\* C12: when no message id appears in both inputs, the merged list has
\* len(A) + len(B) entries, each with exactly one source and with the
\* confidence of its input result.
C12_DisjointIdsAllKept ==
    (Merged /\ InBoth = {}) =>
      /\ Len(ret.results) = Len(ret.origin) + Len(ret.failures)
      /\ \A k \in 1..Len(ret.results) :
           LET e == ret.results[k]
           IN  /\ Len(e.sources) = 1
               /\ \/ \E i \in 1..Len(ret.origin) :
                       /\ ret.origin[i].msg = e.msg
                       /\ ret.origin[i].confidence = e.confidence
                  \/ \E j \in 1..Len(ret.failures) :
                       /\ ret.failures[j].msg = e.msg
                       /\ ret.failures[j].confidence = e.confidence

\* a culprit and a failure on two different messages were merged
C12_Witness ==
    /\ Merged /\ InBoth = {}
    /\ Len(ret.origin) = 1 /\ Len(ret.failures) = 1
    /\ Len(ret.results) = 2

\* the flags of a merged entry: the web merger returns them; the entries of
\* the command-line merger carry only their sources
FlaggedFailure(e) ==
    IF ret.op = "web" THEN e.is_failure ELSE "Error Detection" \in Range(e.sources)

FlaggedResponsible(e) ==
    IF ret.op = "web" THEN e.is_responsible_node
    ELSE "Culprit Detection" \in Range(e.sources)

\* C13: in the merged list every entry flagged as failure precedes every
\* entry that is not, among entries with the same failure flag the
\* responsible nodes come first, and within the same pair of flags the
\* confidence does not increase.
C13_MergedOrder ==
    Merged =>
      \A i \in 1..Len(ret.results) : \A j \in 1..Len(ret.results) :
        i < j =>
          LET a == ret.results[i]
              b == ret.results[j]
          IN  /\ ~(~FlaggedFailure(a) /\ FlaggedFailure(b))
              /\ (FlaggedFailure(a) = FlaggedFailure(b)
                    => ~(~FlaggedResponsible(a) /\ FlaggedResponsible(b)))
              /\ (FlaggedFailure(a) = FlaggedFailure(b)
                  /\ FlaggedResponsible(a) = FlaggedResponsible(b)
                    => a.confidence >= b.confidence)

(********************* claims on errors and narrowing **********************)
\* the last run was a culprit search on a well-formed, non-empty trace
CulpritRan == ret.op = "culprit" /\ ValidTrace(shape) /\ trace # <<>>

\* the positions the last culprit search evaluated, in evaluation order
EvalOrder ==
    LET ev == SelectSeq(calls, LAMBDA c : c.kind = "evaluate")
    IN  [k \in 1..Len(ev) |-> ev[k].step + 1]

\* the plain order: most recent first
ReverseChronological == [k \in 1..Len(trace) |-> Len(trace) + 1 - k]

\* C14: when the judge call for a candidate of a culprit search raises,
\* that candidate gets confidence 0.0, is_culprit false and an explanation
\* recording the error, it is not among the returned culprits, every other
\* candidate is still evaluated, and find_issue_origin returns.
C14_JudgeErrorZeroesOneStep ==
    (CulpritRan /\ \E p \in DOMAIN script.ans : script.ans[p].kind = "raise") =>
      /\ ret.outcome = "ok"
      /\ Range(EvalOrder) = DOMAIN script.ans
      /\ Len(EvalOrder) = Min(Len(trace), script.maxc)
      /\ \A p \in DOMAIN script.ans :
           script.ans[p].kind = "raise" =>
             /\ meta[p].confidence = 0
             /\ meta[p].is_culprit = FALSE
             /\ meta[p].explanation = ErrorExplanation
             /\ p \notin Retained(ret.results)

\* the judge raised on the candidate evaluated first, and the one evaluated
\* after it was retained
C14_Witness ==
    /\ CulpritRan /\ Len(trace) = 2
    /\ script.ans[2].kind = "raise"
    /\ script.ans[1].kind = "json"
    /\ Retained(ret.results) = {1}

\* C15: failure_analysis never lets an exception of the judge reach its
\* caller: on a well-formed trace it returns a result and a summary, a step
\* whose judge call raised is not implicated, and the in-scope steps after
\* it are still analysed up to the first that answers 'Yes'.
C15_FailureAnalysisNeverRaises ==
    (ret.op = "failure" /\ ValidTrace(shape) /\ trace # <<>>) =>
      /\ ret.outcome = "ok"
      /\ \A p \in DOMAIN script.steps :
           (script.steps[p].kind = "raise" /\ p \in StepsJudged) =>
             /\ \A i \in 1..Len(ret.results) : ret.results[i].msg # p
             /\ \A q \in DOMAIN script.steps :
                  (q > p /\ \A r \in DOMAIN script.steps :
                              r < q => StepVerdict(script.steps[r]) # "yes")
                    => q \in StepsJudged

\* the classifier was consulted and failed or answered 'all'
ClassifierOpen ==
    /\ CulpritRan /\ calls # <<>> /\ calls[1].kind = "classify"
    /\ \/ script.cls.kind = "raise"
       \/ script.cls.items \in {<<"All">>, <<" all ">>}

\* C16: when the classifier call raises or answers 'all' in any letter
\* case and with surrounding blanks, narrowing is off, the candidates are
\* evaluated most recent first, and the search returns.
C16_ClassifierFailsOpen ==
    ClassifierOpen =>
      /\ ret.outcome = "ok"
      /\ ~ret.summary.focused_components.active
      /\ EvalOrder = SubSeq(ReverseChronological, 1, Min(Len(trace), script.maxc))

\* the classifier answered 'All' for a trace in which narrowing on the
\* tool would have changed the order
C16_Witness ==
    /\ ClassifierOpen /\ script.cls.kind = "text"
    /\ Len(trace) = 4 /\ trace[1].name = "lookup" /\ trace[4].role = "human"
    /\ EvalOrder = <<4, 3, 2, 1>>

\* C17: failure_analysis returns no failure and the index None, or one
\* failure of confidence 1.0 whose message is the trace message at
\* decisive_error_step_index and belongs to the responsible component.
C17_AtMostOneFailure ==
    (ret.op = "failure" /\ ret.outcome = "ok" /\ ret.summary # EmptySummary) =>
      \/ /\ ret.results = <<>>
         /\ ret.summary.decisive_error_step_index = -1
      \/ /\ Len(ret.results) = 1
         /\ ret.results[1].confidence = 10
         /\ ret.results[1].msg = ret.summary.decisive_error_step_index + 1
         /\ LET msg  == trace[ret.results[1].msg]
                comp == ret.summary.responsible_component
            IN  \/ comp = "Orchestrator" /\ msg.role = "ai"
                \/ msg.role = "tool" /\ msg.name = comp

\* the decisive step is a later tool step of the responsible tool
C17_Witness ==
    /\ ret.op = "failure" /\ ret.outcome = "ok"
    /\ Len(ret.results) = 1
    /\ ret.summary.decisive_error_step_index = 2
    /\ ret.summary.responsible_component = "lookup"

\* narrowing is on: the classifier was consulted and named components
Narrowed ==
    /\ CulpritRan /\ ret.outcome = "ok"
    /\ calls # <<>> /\ calls[1].kind = "classify"
    /\ script.cls.kind = "text"
    /\ script.cls.items \notin {<<"All">>, <<" all ">>}

\* the message belongs to a component the classifier named
NamedByClassifier(msg) ==
    \/ msg.role = "ai" /\ "Orchestrator" \in Range(script.cls.items)
    \/ msg.role = "tool" /\ msg.name \in Range(script.cls.items)

\* C18: with narrowing on, every candidate of a component the classifier
\* named is evaluated before every candidate of no named component.
C18_NamedComponentsFirst ==
    Narrowed =>
      \A p \in 1..Len(trace) : \A q \in Range(EvalOrder) :
        (NamedByClassifier(trace[p]) /\ ~NamedByClassifier(trace[q])) =>
          /\ p \in Range(EvalOrder)
          /\ EvalRank(p) < EvalRank(q)

\* C19: with narrowing on and no truncation, the evaluation order holds
\* every message of the trace exactly once, and both the messages counted
\* relevant and the others are in most-recent-first order among themselves.
C19_ReorderNotFilter ==
    (Narrowed /\ script.maxc >= Len(trace)) =>
      /\ Len(EvalOrder) = Len(trace)
      /\ Range(EvalOrder) = 1..Len(trace)
      /\ \A i \in 1..Len(EvalOrder) : \A j \in 1..Len(EvalOrder) :
           (i < j /\ IsRelevant(trace[EvalOrder[i]], ret.summary.focused_components.comps)
                     = IsRelevant(trace[EvalOrder[j]], ret.summary.focused_components.comps))
             => EvalOrder[i] > EvalOrder[j]

\* two steps of the named tool were moved in front of two later messages
C19_Witness ==
    /\ Narrowed /\ script.maxc >= Len(trace)
    /\ EvalOrder = <<2, 1, 4, 3>>

\* C20: the culprit search evaluates the first max_messages_to_check
\* entries of the reordered candidate list and no others: the number of
\* evaluation calls and total_messages_checked are min(n, max), and the
\* messages behind the cut get no metadata.
C20_TruncatedToMax ==
    (CulpritRan /\ ret.outcome = "ok") =>
      LET n == Min(Len(trace), script.maxc)
      IN  /\ Len(EvalOrder) = n
          /\ ret.summary.total_messages_checked = n
          /\ EvalOrder = SubSeq(Prioritized(trace, ret.summary.focused_components), 1, n)
          /\ \A p \in 1..Len(trace) : p \notin Range(EvalOrder) => meta[p] = NoMeta

\* a narrowed search over four messages stopped after two
C20_Witness ==
    /\ Narrowed /\ Len(trace) = 4 /\ script.maxc = 2
    /\ EvalOrder = <<1, 4>>
    /\ meta[2] = NoMeta /\ meta[3] = NoMeta

(************************ claims on reply parsing **************************)
\* the reply holds no JSON object that parses: the text fallback is taken
TextReply(ans) == ans.kind \in {"text_conf", "text_bad_number", "text_none"}

\* C21: parsing a judge reply never aborts a culprit search and follows
\* three steps: the confidence of a JSON object that parses is used; else a
\* numeric confidence found in the text by pattern is used; else the
\* confidence is 0.0 and the explanation is the raw reply cut to 200
\* characters; and all candidates are evaluated whatever the replies are.
C21_ParsingChain ==
    (CulpritRan /\ \A p \in DOMAIN script.ans : script.ans[p].kind # "raise") =>
      /\ ret.outcome = "ok"
      /\ Range(EvalOrder) = DOMAIN script.ans
      /\ \A p \in DOMAIN script.ans :
           LET ans == script.ans[p]
           IN  /\ ans.kind \in {"json", "json_null_explanation"}
                    => meta[p].confidence = ans.conf
               /\ ans.kind = "text_conf" => meta[p].confidence = ans.conf
               /\ TextReply(ans) => "raw_response_200" \in Range(meta[p].explanation)
               /\ ans.kind \in {"text_bad_number", "text_none"}
                    => meta[p].confidence = 0

\* C22: the decisive-step search does not raise on any text the judge
\* returns, the empty text included; a reply whose first line has no 'Yes'
\* counts as 'No' and the scan goes on with the next in-scope step.
C22_StepReplyParsedDefensively ==
    (/\ ret.op = "failure" /\ ValidTrace(shape) /\ trace # <<>>
     /\ script.comp.kind = "text"
     /\ \A p \in DOMAIN script.steps : script.steps[p].kind = "text") =>
      /\ ret.outcome = "ok"
      /\ \A p \in StepsJudged :
           (script.steps[p].lines = <<>> \/ script.steps[p].lines[1] = "No") =>
             /\ \A i \in 1..Len(ret.results) : ret.results[i].msg # p
             /\ \A q \in DOMAIN script.steps :
                  (q > p /\ \A r \in DOMAIN script.steps : (p < r /\ r < q) => r \notin StepsJudged)
                    => q \in StepsJudged

\* C23: every confidence a culprit search returns or writes to the
\* metadata of an evaluated message lies between 0.0 and 1.0.
C23_ConfidenceInUnitInterval ==
    CulpritRan =>
      /\ \A i \in 1..Len(ret.results) :
           0 <= ret.results[i].confidence /\ ret.results[i].confidence <= 10
      /\ \A p \in Range(EvalOrder) :
           0 <= meta[p].confidence /\ meta[p].confidence <= 10

(************************ claims on message ids ****************************)
\* the id under which a message of the trace is to be reported: its own id,
\* or msg_<i> with i its 0-based position in the trace
ReportedId(p) == IF trace[p].id # 0 THEN <<"id", trace[p].id>> ELSE <<"msg", p - 1>>

\* C24: a retained culprit without id is listed in culprit_message_ids as
\* msg_<i> with i its own position in the trace; messages at different
\* positions get different ids, so culprit_message_ids holds exactly one id
\* per retained culprit.
C24_SynthesizedIdsPositional ==
    (CulpritRan /\ ret.outcome = "ok") =>
      /\ \A i \in 1..Len(ret.results) :
           trace[ret.results[i].msg].id = 0 =>
             <<"msg", ret.results[i].msg - 1>> \in ret.summary.culprit_message_ids
      /\ Cardinality(ret.summary.culprit_message_ids) = Len(ret.results)

\* C28: after a request that ran both analyses, culprit_message_ids of the
\* combined summary holds an id for every merged entry, also for a decisive
\* failure step without id, so it has at least as many ids as there are
\* merged entries.
C28_MergedEntriesHaveIds ==
    Merged =>
      /\ \A k \in 1..Len(ret.results) :
           ReportedId(ret.results[k].msg) \in ret.summary.culprit_message_ids
      /\ Cardinality(ret.summary.culprit_message_ids) >= Len(ret.results)

(********************* claims on the order of the passes *******************)
\* the metadata the messages of the trace would carry had the same judge
\* answers been given to failure analysis first and culprit search second
FailureThenCulprit ==
    LET f == FailureAnalysis(trace, [p \in 1..Len(trace) |-> NoMeta],
                             script.comp, script.steps)
        o == FindIssueOrigin(trace, f.meta, script.thr, DefaultMaxMessages, TRUE,
                             ClassifierRaise, script.ans)
    IN  o.meta

\* C25: for one trace and one assignment of judge answers, culprit search
\* followed by failure analysis leaves every message with the same metadata
\* as failure analysis followed by culprit search.
C25_OrderIndependent ==
    (Merged /\ ret.op = "web") => meta = FailureThenCulprit

\* the message at position p carries is_failure = true
MarkedFailure(p) == "is_failure" \in DOMAIN meta[p] /\ meta[p].is_failure

\* C26: after any sequence of runs that ends with a failure analysis, the
\* decisive step that analysis returned is the one message whose metadata
\* has is_failure = true, and no message has it when none was returned.
C26_IsFailureFollowsLastAnalysis ==
    (ret.op = "failure" /\ ret.outcome = "ok" /\ ret.summary # EmptySummary) =>
      \A p \in 1..Len(trace) :
        MarkedFailure(p) <=> (p = ret.summary.decisive_error_step_index + 1)

\* C27: a step whose reply follows the prompted format with a negative
\* decision (first line 'Yes/No: No') is not reported as the decisive error
\* and does not end the scan.
C27_NegativeVerdictNotDecisive ==
    (ret.op = "failure" /\ ret.outcome = "ok" /\ ret.summary # EmptySummary) =>
      \A p \in StepsJudged :
        (script.steps[p].lines # <<>> /\ script.steps[p].lines[1] = "Yes/No: No") =>
          /\ ret.summary.decisive_error_step_index # p - 1
          /\ \A i \in 1..Len(ret.results) : ret.results[i].msg # p

\* the steps of the trace that belong to the component the judge named
StepsInScope ==
    IF script.comp.kind = "raise" THEN {}
    ELSE {p \in 1..Len(trace) :
            \/ Responsible = "Orchestrator" /\ trace[p].role = "ai"
            \/ trace[p].role = "tool" /\ trace[p].name = Responsible}

\* C29: a culprit search over n messages issues at most one classifier call
\* and one evaluation call per candidate, at most 1 + min(n, max) in all;
\* a failure analysis issues at most 1 + k calls, k the number of in-scope
\* steps, and puts no step to the judge twice.
C29_BoundedJudgeCalls ==
    /\ (CulpritRan /\ ret.outcome = "ok") =>
         /\ Len(calls) <= 1 + Min(Len(trace), script.maxc)
         /\ Cardinality({k \in 1..Len(calls) : calls[k].kind = "classify"}) <= 1
         /\ Len(EvalOrder) = Cardinality(Range(EvalOrder))
    /\ (ret.op = "failure" /\ ValidTrace(shape) /\ trace # <<>>) =>
         /\ Len(calls) <= 1 + Cardinality(StepsInScope)
         /\ Cardinality({k \in 1..Len(calls) : calls[k].kind = "component"}) = 1
         /\ Len(calls) - 1 = Cardinality(StepsJudged)

\* a culprit search over four messages, cut at two, made its classifier
\* call and two evaluation calls
C29_Witness ==
    /\ CulpritRan /\ Len(trace) = 4 /\ script.maxc = 2
    /\ Len(calls) = 3 /\ calls[1].kind = "classify"

\* C30: after the merge, the message the failure pass flagged still has
\* is_failure = true and its responsible_component in its metadata, and a
\* message reported by the failure pass alone does not have
\* is_culprit = true.
C30_MergeKeepsFlags ==
    Merged =>
      \A j \in 1..Len(ret.failures) :
        LET p == ret.failures[j].msg
        IN  /\ MarkedFailure(p)
            /\ "responsible_component" \in DOMAIN meta[p]
            /\ (\A i \in 1..Len(ret.origin) : ret.origin[i].msg # p)
                 => ~("is_culprit" \in DOMAIN meta[p] /\ meta[p].is_culprit)

====
